---- MODULE Spec2Model ----
(***************************************************************************)
(* PDFOutlineExtractor (src/read_pdf.py): the heuristic pipeline that      *)
(* turns the styled text lines of a PDF into a title and an H1/H2/H3       *)
(* outline.                                                                *)
(*                                                                         *)
(* A text is a sequence of one-character strings, so that the regular      *)
(* expressions, strip(), lower(), join() and the whitespace collapse are   *)
(* computed character by character.  A font size is an integer number of   *)
(* tenths of a point (12.0 is 120); a raw span size is an integer number   *)
(* of hundredths (11.96 is 1196).                                          *)
(***************************************************************************)
EXTENDS Integers, Sequences, FiniteSets, TLC

VARIABLES
    fn,             \* the method of PDFOutlineExtractor that is called
    pc,             \* "call" before the method runs, "return" after it
    pdf,            \* the document behind pdf_path (extract_outline)
    text_lines,     \* the cleaned line sequence
    line,           \* the line handed to is_likely_heading / classify_heading_level
    heading_sizes,  \* the descending list of heading sizes
    common_texts,   \* the header/footer suppression set
    body_size,      \* the body font size
    ret             \* what the method returned

vars == <<fn, pc, pdf, text_lines, line, heading_sizes, common_texts, body_size, ret>>

----------------------------------------------------------------------------
(* Characters and the string methods the extractor uses.                   *)

Digit == {"0", "1", "2", "3", "4", "5", "6", "7", "8", "9"}

UpperSeq == <<"A", "B", "C", "D", "E", "F", "G", "H", "I", "J", "K", "L", "M", "N", "O", "P", "Q", "R", "S", "T", "U", "V", "W", "X", "Y", "Z">>

LowerSeq == <<"a", "b", "c", "d", "e", "f", "g", "h", "i", "j", "k", "l", "m", "n", "o", "p", "q", "r", "s", "t", "u", "v", "w", "x", "y", "z">>

Upper == {UpperSeq[i] : i \in 1..26}

Lower == {LowerSeq[i] : i \in 1..26}

\* \s of the regular expressions and the characters strip() removes
Space == {" ", "\t"}

Roman == {"I", "V", "X", "L", "C", "D", "M"}

Min(S) == CHOOSE x \in S : \A y \in S : x <= y

Max(S) == CHOOSE x \in S : \A y \in S : x >= y

\* the index after the longest run of characters of C that starts at i
RunEnd(s, i, C) ==
    CHOOSE j \in i..(Len(s) + 1) :
        /\ j = Len(s) + 1 \/ s[j] \notin C
        /\ \A k \in i..(j - 1) : s[k] \in C

\* the index at which the longest run of characters of C that ends at e starts
RunStart(s, e, C) ==
    LET n == CHOOSE d \in 0..e :
                 /\ d = e \/ s[e - d] \notin C
                 /\ \A k \in (e - d + 1)..e : s[k] \in C
    IN  e - n + 1

\* the lower-case letter of an upper-case letter
LowerOf == [c \in Upper |-> LowerSeq[CHOOSE k \in 1..26 : UpperSeq[k] = c]]

\* str.lower()
lower(s) == [i \in 1..Len(s) |-> IF s[i] \in Upper THEN LowerOf[s[i]] ELSE s[i]]

\* str.strip()
strip(s) ==
    LET a == RunEnd(s, 1, Space)
        b == RunStart(s, Len(s), Space) - 1
    IN  IF a > Len(s) THEN <<>> ELSE SubSeq(s, a, b)

RECURSIVE join(_)
\* ' '.join(parts)
join(parts) ==
    IF parts = <<>> THEN <<>>
    ELSE IF Len(parts) = 1 THEN parts[1]
    ELSE parts[1] \o <<" ">> \o join(Tail(parts))

\* re.sub(r'\s+', ' ', s): the first character of each run of whitespace
\* becomes a space and the rest of the run is dropped
collapse_whitespace(s) ==
    LET marked == [i \in 1..Len(s) |->
                      [char |-> IF s[i] \in Space THEN " " ELSE s[i],
                       keep |-> s[i] \notin Space \/ i = 1 \/ s[i - 1] \notin Space]]
        kept == SelectSeq(marked, LAMBDA m : m.keep)
    IN  [i \in 1..Len(kept) |-> kept[i].char]

----------------------------------------------------------------------------
(* The regular expressions.                                                *)

RECURSIVE DottedEnd(_, _)
\* the index after (\.\d+)* matched greedily from p
DottedEnd(s, p) ==
    IF p + 1 <= Len(s) /\ s[p] = "." /\ s[p + 1] \in Digit
    THEN DottedEnd(s, RunEnd(s, p + 1, Digit))
    ELSE p

\* the index after ^\d+(\.\d+)* , or 1 when the text does not start with a digit
NumericPrefixEnd(s) ==
    LET p == RunEnd(s, 1, Digit)
    IN  IF p = 1 THEN 1 ELSE DottedEnd(s, p)

\* re.match(r'^\d+(\.\d+)*\s+.*', s)
MatchNumbered(s) ==
    LET p == NumericPrefixEnd(s)
    IN  p > 1 /\ p <= Len(s) /\ s[p] \in Space

\* re.match(r'^(Chapter|Section)\s+([A-Z]|\d+)\s+.*', s)
MatchChapterSection(s) ==
    /\ Len(s) >= 8
    /\ SubSeq(s, 1, 7) \in { <<"C", "h", "a", "p", "t", "e", "r">>,
                             <<"S", "e", "c", "t", "i", "o", "n">> }
    /\ s[8] \in Space
    /\ LET q == RunEnd(s, 8, Space)
           r == IF q <= Len(s) /\ s[q] \in Upper THEN q + 1 ELSE RunEnd(s, q, Digit)
       IN  r > q /\ r <= Len(s) /\ s[r] \in Space

\* re.match(r'^[A-Z\s]{3,}$', s)
MatchAllCaps(s) ==
    Len(s) >= 3 /\ \A i \in 1..Len(s) : s[i] \in Upper \cup Space

RECURSIVE TitleWords(_, _, _)
\* (\s[A-Z][a-z]+)+$ from p, n groups matched so far
TitleWords(s, p, n) ==
    IF p = Len(s) + 1 THEN n >= 1
    ELSE /\ s[p] \in Space
         /\ p + 1 <= Len(s)
         /\ s[p + 1] \in Upper
         /\ RunEnd(s, p + 2, Lower) > p + 2
         /\ TitleWords(s, RunEnd(s, p + 2, Lower), n + 1)

\* re.match(r'^([A-Z][a-z]+)(\s[A-Z][a-z]+)+$', s)
MatchTitleCase(s) ==
    /\ Len(s) >= 2
    /\ s[1] \in Upper
    /\ RunEnd(s, 2, Lower) > 2
    /\ TitleWords(s, RunEnd(s, 2, Lower), 0)

\* re.match(r'^[IVXLCDM]+\.\s+.+', s)
MatchRoman(s) ==
    LET r == RunEnd(s, 1, Roman)
    IN  /\ r > 1
        /\ r + 2 <= Len(s)
        /\ s[r] = "."
        /\ s[r + 1] \in Space

\* self.heading_patterns, tried in order
heading_patterns(s) ==
    \/ MatchNumbered(s)
    \/ MatchChapterSection(s)
    \/ MatchAllCaps(s)
    \/ MatchTitleCase(s)
    \/ MatchRoman(s)

\* self.explicit_headings
explicit_headings ==
    { <<"a", "c", "k", "n", "o", "w", "l", "e", "d", "g", "e", "m", "e", "n", "t", "s">>,
      <<"r", "e", "v", "i", "s", "i", "o", "n", " ", "h", "i", "s", "t", "o", "r", "y">>,
      <<"t", "a", "b", "l", "e", " ", "o", "f", " ", "c", "o", "n", "t", "e", "n", "t", "s">>,
      <<"r", "e", "f", "e", "r", "e", "n", "c", "e", "s">>,
      <<"t", "r", "a", "d", "e", "m", "a", "r", "k", "s">>,
      <<"i", "n", "t", "r", "o", "d", "u", "c", "t", "i", "o", "n">>,
      <<"o", "v", "e", "r", "v", "i", "e", "w">> }

\* re.fullmatch(r'\d+', s)
FullMatchDigits(s) ==
    Len(s) >= 1 /\ \A i \in 1..Len(s) : s[i] \in Digit

\* re.search(r'\s\.{3,}\s*\d+$', s): the table-of-contents dot leader
MatchDotLeader(s) ==
    LET ds == RunStart(s, Len(s), Digit)
        ws == RunStart(s, ds - 1, Space)
        dt == RunStart(s, ws - 1, {"."})
    IN  /\ ds <= Len(s)
        /\ ws - dt >= 3
        /\ dt >= 2
        /\ s[dt - 1] \in Space

----------------------------------------------------------------------------
(* Constants of the extractor.                                             *)

HeaderPercent == 15

FooterPercent == 85

MinMarginTextLen == 4

TitleWindow == 30

TitleMaxLen == 150

TitleKeepLen == 147

MinHeadingLen == 3

MaxHeadingLen == 200

BoldFlag == 16

DefaultBodySize == 100

Ellipsis == <<".", ".", ".">>

UntitledDocument == <<"U", "n", "t", "i", "t", "l", "e", "d", " ", "D", "o", "c", "u", "m", "e", "n", "t">>

ErrorTitle == <<"E", "r", "r", "o", "r", ":", " ", "C", "o", "u", "l", "d", " ", "N", "o", "t", " ", "P", "r", "o", "c", "e", "s", "s", " ", "D", "o", "c", "u", "m", "e", "n", "t">>

----------------------------------------------------------------------------
(* Header/footer detection and line extraction.                            *)
(* A document is a sequence of pages [height, lines]; a raw line is        *)
(* [spans, y1] with y1 the top of its bounding box; a span is              *)
(* [text, size, flags].                                                    *)

RECURSIVE span_texts(_)
\* the stripped texts of the spans that are not blank
span_texts(spans) ==
    IF spans = <<>> THEN <<>>
    ELSE (IF strip(spans[1].text) = <<>> THEN <<>> ELSE <<strip(spans[1].text)>>)
         \o span_texts(Tail(spans))

\* " ".join(s["text"].strip() for s in line["spans"] if s["text"].strip()).strip()
line_text(raw) == strip(join(span_texts(raw.spans)))

\* round(first_span["size"], 1): hundredths of a point to tenths
round_1(size) == (size + 5) \div 10

\* y1 < page_height * 0.15
in_header_margin(doc, y1) == y1 * 100 < doc[1].height * HeaderPercent

\* y1 > page_height * 0.85, reached only when the line is not in the header margin
in_footer_margin(doc, y1) ==
    ~in_header_margin(doc, y1) /\ y1 * 100 > doc[1].height * FooterPercent

\* the (page, line) positions of a document
line_positions(doc) ==
    UNION {{<<p, k>> : k \in 1..Len(doc[p].lines)} : p \in 1..Len(doc)}

\* the lines the margin scan looks at: text and top of every line whose text
\* has 4 characters or more
scanned_lines(doc) ==
    {m \in {[pos  |-> pos,
              text |-> line_text(doc[pos[1]].lines[pos[2]]),
              y1   |-> doc[pos[1]].lines[pos[2]].y1] : pos \in line_positions(doc)} :
        Len(m.text) >= MinMarginTextLen}

\* header_candidates[text], over the scanned lines
header_candidates(doc, scanned, text) ==
    Cardinality({m \in scanned : m.text = text /\ in_header_margin(doc, m.y1)})

\* footer_candidates[text], over the scanned lines
footer_candidates(doc, scanned, text) ==
    Cardinality({m \in scanned : m.text = text /\ in_footer_margin(doc, m.y1)})

\* the threshold with the page-count test written >= 2: a 2-page document
\* needs two occurrences
threshold_from_two_pages(page_count) ==
    IF page_count >= 2 THEN Max({page_count \div 2, 2}) ELSE 1

\* max(doc.page_count // 2, 2) if doc.page_count > 2 else 1
threshold(page_count) ==
    IF page_count > 2 THEN Max({page_count \div 2, 2}) ELSE 1

\* _identify_headers_and_footers(doc)
identify_headers_and_footers(doc) ==
    IF Len(doc) = 0 THEN {}
    ELSE LET scanned == scanned_lines(doc)
         IN  {t \in {m.text : m \in scanned} :
                \/ LET count == header_candidates(doc, scanned, t)
                   IN  count >= 1 /\ count >= threshold(Len(doc))
                \/ LET count == footer_candidates(doc, scanned, t)
                   IN  count >= 1 /\ count >= threshold(Len(doc))}

RECURSIVE page_lines(_, _, _)
\* the lines one page contributes to all_lines
page_lines(raws, page_num, headers_and_footers) ==
    IF raws = <<>> THEN <<>>
    ELSE LET raw == Head(raws)
             t == line_text(raw)
             skip == \/ raw.spans = <<>>
                     \/ t = <<>>
                     \/ t \in headers_and_footers
                     \/ MatchDotLeader(t)
         IN  (IF skip THEN <<>>
              ELSE << [text  |-> t,
                       size  |-> round_1(raw.spans[1].size),
                       flags |-> raw.spans[1].flags,
                       page  |-> page_num] >>)
             \o page_lines(Tail(raws), page_num, headers_and_footers)

RECURSIVE all_lines(_, _, _)
\* for page_num, page in enumerate(doc), from page index p on
all_lines(doc, p, headers_and_footers) ==
    IF p > Len(doc) THEN <<>>
    ELSE page_lines(doc[p].lines, p, headers_and_footers)
         \o all_lines(doc, p + 1, headers_and_footers)

\* the try block of extract_text_lines; raised when fitz.open raises
extract_text_lines_try(file) ==
    IF file.status = "missing"
    THEN [raised |-> FALSE, lines |-> <<>>, headers_and_footers |-> {}]
    ELSE IF file.status = "corrupt"
    THEN [raised |-> TRUE, lines |-> <<>>, headers_and_footers |-> {}]
    ELSE IF Len(file.pages) = 0
    THEN [raised |-> FALSE, lines |-> <<>>, headers_and_footers |-> {}]
    ELSE LET headers_and_footers == identify_headers_and_footers(file.pages)
         IN  [raised |-> FALSE,
              lines  |-> all_lines(file.pages, 1, headers_and_footers),
              headers_and_footers |-> headers_and_footers]

\* extract_text_lines without its try/except: the exception reaches the caller
extract_text_lines_unguarded(file) == extract_text_lines_try(file)

\* extract_text_lines(pdf_path): except Exception returns []
extract_text_lines(file) ==
    LET r == extract_text_lines_try(file)
    IN  IF r.raised THEN [r EXCEPT !.raised = FALSE, !.lines = <<>>] ELSE r

----------------------------------------------------------------------------
(* Title, font analysis, heading detection and level.                      *)
(* A cleaned line is [text, size, flags, page].                            *)

\* lines[:n]
Take(lines, n) == SubSeq(lines, 1, Min({Len(lines), n}))

\* [line for line in text_lines if line['page'] == p][:30]
title_window(lines, p) ==
    Take(SelectSeq(lines, LAMBDA l : l.page = p), TitleWindow)

RECURSIVE texts_of(_)
\* [line['text'] for line in lines]
texts_of(lines) ==
    IF lines = <<>> THEN <<>> ELSE <<lines[1].text>> \o texts_of(Tail(lines))

\* the truncation keeping 150 characters before the ellipsis
truncate_title_keep_150(title) ==
    IF Len(title) > TitleMaxLen
    THEN SubSeq(title, 1, TitleMaxLen) \o Ellipsis
    ELSE title

\* the truncation of a title longer than 150 characters
truncate_title(title) ==
    IF Len(title) > TitleMaxLen
    THEN SubSeq(title, 1, TitleKeepLen) \o Ellipsis
    ELSE title

\* extract_title(text_lines)
extract_title(lines) ==
    IF lines = <<>> THEN UntitledDocument
    ELSE LET first  == title_window(lines, 1)
             second == title_window(lines, 2)
             first_page_lines == IF first # <<>> THEN first ELSE second
         IN  IF first_page_lines = <<>> THEN UntitledDocument
             ELSE LET max_size == Max({first_page_lines[i].size : i \in 1..Len(first_page_lines)})
                      title_candidates ==
                          texts_of(SelectSeq(first_page_lines, LAMBDA l : l.size = max_size))
                      title == truncate_title(collapse_whitespace(strip(join(title_candidates))))
                  IN  IF title # <<>> THEN title ELSE UntitledDocument

\* size_frequency[size]
size_frequency(lines, size) ==
    Cardinality({i \in 1..Len(lines) : lines[i].size = size})

\* the index at which the Counter first saw the size
first_seen(lines, size) ==
    Min({i \in 1..Len(lines) : lines[i].size = size})

\* size_frequency.most_common(1)[0][0]: the most frequent size, the one the
\* Counter saw first among equally frequent ones
most_common(lines) ==
    LET sizes == {lines[i].size : i \in 1..Len(lines)}
        top   == {s \in sizes : \A t \in sizes : size_frequency(lines, s) >= size_frequency(lines, t)}
    IN  CHOOSE s \in top : \A t \in top : first_seen(lines, s) <= first_seen(lines, t)

RECURSIVE sorted_reverse(_)
\* sorted(sizes, reverse=True) of a set of distinct sizes
sorted_reverse(sizes) ==
    IF sizes = {} THEN <<>>
    ELSE <<Max(sizes)>> \o sorted_reverse(sizes \ {Max(sizes)})

\* analyze_font_styles(text_lines)
analyze_font_styles(lines) ==
    IF lines = <<>> THEN [body_size |-> DefaultBodySize, heading_sizes |-> <<>>]
    ELSE LET body == most_common(lines)
         IN  [body_size     |-> body,
              heading_sizes |->
                  sorted_reverse({s \in {lines[i].size : i \in 1..Len(lines)} : s > body})]

\* line['flags'] & 16
is_bold(flags) == (flags \div BoldFlag) % 2 = 1

\* is_likely_heading(line)
is_likely_heading(l) ==
    IF Len(l.text) < MinHeadingLen \/ Len(l.text) > MaxHeadingLen THEN FALSE
    ELSE IF FullMatchDigits(l.text) THEN FALSE
    ELSE IF strip(lower(l.text)) \in explicit_headings THEN TRUE
    ELSE IF heading_patterns(l.text) THEN TRUE
    ELSE is_bold(l.flags)

\* len(match.group(1).split('.')) for the numeric prefix of the text
num_parts(text) ==
    LET prefix == SubSeq(text, 1, NumericPrefixEnd(text) - 1)
    IN  Cardinality({i \in 1..Len(prefix) : prefix[i] = "."}) + 1

\* the level of a font size by its rank in heading_sizes
size_level(font_size, sizes) ==
    IF \E i \in 1..Len(sizes) : sizes[i] = font_size
    THEN LET level_index == Min({i \in 1..Len(sizes) : sizes[i] = font_size}) - 1
         IN  IF level_index = 0 THEN "H1"
             ELSE IF level_index = 1 THEN "H2"
             ELSE "H3"
    ELSE "H3"

\* classify_heading_level with the size rank tried before the numeric prefix
classify_heading_level_size_first(l, sizes) ==
    IF \E i \in 1..Len(sizes) : sizes[i] = l.size
    THEN size_level(l.size, sizes)
    ELSE IF NumericPrefixEnd(l.text) > 1
    THEN IF num_parts(l.text) = 1 THEN "H1"
         ELSE IF num_parts(l.text) = 2 THEN "H2"
         ELSE "H3"
    ELSE "H3"

\* classify_heading_level(line, heading_sizes)
classify_heading_level(l, sizes) ==
    IF NumericPrefixEnd(l.text) > 1
    THEN IF num_parts(l.text) = 1 THEN "H1"
         ELSE IF num_parts(l.text) = 2 THEN "H2"
         ELSE "H3"
    ELSE size_level(l.size, sizes)

----------------------------------------------------------------------------
(* The outline.                                                            *)

\* the fallback of extract_outline when analyze_font_styles found no heading size
font_styles(lines) ==
    LET a == analyze_font_styles(lines)
        unique_sizes == sorted_reverse({lines[i].size : i \in 1..Len(lines)})
    IN  IF a.heading_sizes = <<>> /\ Len(unique_sizes) > 1
        THEN [body_size     |-> unique_sizes[Len(unique_sizes)],
              heading_sizes |->
                  SelectSeq(unique_sizes, LAMBDA s : s > unique_sizes[Len(unique_sizes)])]
        ELSE a

\* heading_text.strip() == title.strip() and page_num <= 2
is_title(l, title) == strip(l.text) = strip(title) /\ l.page <= 2

\* a heading key without the page
heading_key_text_only(l) == <<lower(l.text), 0>>

\* heading_key
heading_key(l) == <<lower(l.text), l.page>>

\* the size filter written with <: a line of body size passes it
is_below_body_size(l, body) == l.size < body

\* line['size'] <= body_size: the line is no larger than body text
is_body_size(l, body) == l.size <= body

RECURSIVE collect_headings(_, _, _, _, _, _)
\* the loop over text_lines: the outline before the sort
collect_headings(lines, body, sizes, title, outline, seen_headings) ==
    IF lines = <<>> THEN outline
    ELSE LET l == Head(lines)
             rest == Tail(lines)
         IN  IF is_body_size(l, body)
             THEN collect_headings(rest, body, sizes, title, outline, seen_headings)
             ELSE IF ~is_likely_heading(l)
             THEN collect_headings(rest, body, sizes, title, outline, seen_headings)
             ELSE IF is_title(l, title)
             THEN collect_headings(rest, body, sizes, title, outline, seen_headings)
             ELSE IF heading_key(l) \in seen_headings
             THEN collect_headings(rest, body, sizes, title, outline, seen_headings)
             ELSE collect_headings(rest, body, sizes, title,
                      Append(outline, [level |-> classify_heading_level(l, sizes),
                                       text  |-> l.text,
                                       page  |-> l.page]),
                      seen_headings \cup {heading_key(l)})

RECURSIVE sort_by_page_descending(_)
\* a sort by page in descending order
sort_by_page_descending(outline) ==
    IF outline = <<>> THEN <<>>
    ELSE LET sorted == sort_by_page_descending(SubSeq(outline, 1, Len(outline) - 1))
             x == outline[Len(outline)]
             k == Cardinality({i \in 1..Len(sorted) : sorted[i].page >= x.page})
         IN  SubSeq(sorted, 1, k) \o <<x>> \o SubSeq(sorted, k + 1, Len(sorted))

RECURSIVE sort_by_page(_)
\* outline.sort(key=lambda x: x['page']): a stable sort, as an insertion sort
sort_by_page(outline) ==
    IF outline = <<>> THEN <<>>
    ELSE LET sorted == sort_by_page(SubSeq(outline, 1, Len(outline) - 1))
             x == outline[Len(outline)]
             k == Cardinality({i \in 1..Len(sorted) : sorted[i].page <= x.page})
         IN  SubSeq(sorted, 1, k) \o <<x>> \o SubSeq(sorted, k + 1, Len(sorted))

\* the result of extract_outline for a cleaned line sequence that is not empty
outline_of(lines) ==
    LET title == extract_title(lines)
        f == font_styles(lines)
    IN  [raised  |-> FALSE,
         title   |-> title,
         outline |-> sort_by_page(
                        collect_headings(lines, f.body_size, f.heading_sizes, title, <<>>, {}))]

ErrorResult == [raised |-> FALSE, title |-> ErrorTitle, outline |-> <<>>]

----------------------------------------------------------------------------
(* The inputs.                                                             *)

T_Confidential == <<"C", "o", "n", "f", "i", "d", "e", "n", "t", "i", "a", "l">>
T_abc == <<"a", "b", "c">>
T_ANNUAL_REPORT == <<"A", "N", "N", "U", "A", "L", " ", "R", "E", "P", "O", "R", "T">>
T_Annual_Report == <<"A", "n", "n", "u", "a", "l", " ", "R", "e", "p", "o", "r", "t">>
T_OVERVIEW == <<"O", "V", "E", "R", "V", "I", "E", "W">>
T_Overview == <<"O", "v", "e", "r", "v", "i", "e", "w">>
T_Data_Pipeline == <<"3", ".", "2", " ", "D", "a", "t", "a", " ", "P", "i", "p", "e", "l", "i", "n", "e">>
T_plain_text == <<"p", "l", "a", "i", "n", " ", "t", "e", "x", "t">>
T_dot_leader == <<"P", "a", "g", "e", " ", "3", " ", "o", "f", " ", "1", "0", " ", ".", ".", ".", ".", ".", ".", ".", ".", ".", " ", "4", "2">>
T_1_Text == <<"1", ".", " ", "T", "e", "x", "t">>
T_1_1_Text == <<"1", ".", "1", " ", "T", "e", "x", "t">>
T_1_1_1_Text == <<"1", ".", "1", ".", "1", " ", "T", "e", "x", "t">>
T_Chapter_1 == <<"C", "h", "a", "p", "t", "e", "r", " ", "1">>
T_Section_A == <<"S", "e", "c", "t", "i", "o", "n", " ", "A">>
T_Chapter_1_Intro == <<"C", "h", "a", "p", "t", "e", "r", " ", "1", " ", "I", "n", "t", "r", "o">>
T_Section_A_Scope == <<"S", "e", "c", "t", "i", "o", "n", " ", "A", " ", "S", "c", "o", "p", "e">>
T_I_Intro == <<"I", ".", " ", "I", "n", "t", "r", "o">>
T_42 == <<"4", "2">>
T_ab == <<"a", "b">>
T_1_Intro == <<"1", " ", "I", "n", "t", "r", "o">>
T_1_2_3_Deep == <<"1", ".", "2", ".", "3", " ", "D", "e", "e", "p">>
T_1_2_3_4_Deeper == <<"1", ".", "2", ".", "3", ".", "4", " ", "D", "e", "e", "p", "e", "r">>
T_3_Scope == <<"3", ".", " ", "S", "c", "o", "p", "e">>
T_v5_notes == <<"v", ".", "5", " ", "n", "o", "t", "e", "s">>
T_Annual == <<"A", "n", "n", "u", "a", "l">>
T_Report_2024 == <<"R", "e", "p", "o", "r", "t", " ", "\t", "2", "0", "2", "4">>
T_sp_ANNUAL == <<" ", "A", "N", "N", "U", "A", "L">>
T_REPORT_sp == <<"R", "E", "P", "O", "R", "T", " ">>
T_blank == <<" ", "\t">>
T_Table_of_Contents == <<"T", "a", "b", "l", "e", " ", "o", "f", " ", "C", "o", "n", "t", "e", "n", "t", "s">>

\* a text of n capital letters
Capitals(n) == [i \in 1..n |-> "A"]

\* the most lines of a generated document with headings
MaxLines == 3

\* the most lines handed to extract_title besides the padding
MaxTitleLines == 2

\* the most pages of a document with margin texts
MaxPages == 6

\* a raw line of one span
Raw(text, size, flags, y1) ==
    [spans |-> << [text |-> text, size |-> size, flags |-> flags] >>, y1 |-> y1]

\* the sequences of at most n elements of S
SeqsUpTo(S, n) == UNION {[1..k -> S] : k \in 0..n}

\* documents with a text repeated in the margins: the text sits at height y on
\* the pages of S, and once more at height y2 on page p2 when p2 > 0; the
\* first page is h high and starts with a line of body text when body holds
MarginDoc(n, h, text, y, S, p2, y2, body) ==
    [status |-> "ok",
     pages  |-> [p \in 1..n |->
        [height |-> IF p = 1 THEN h ELSE 800,
         lines  |-> (IF p = 1 /\ body THEN <<Raw(T_plain_text, 1200, 0, 400)>> ELSE <<>>)
                    \o (IF p \in S THEN <<Raw(text, 1200, 0, y)>> ELSE <<>>)
                    \o (IF p = p2 THEN <<Raw(text, 1200, 0, y2)>> ELSE <<>>)]]]

\* heights of a first page and of a line top: 130 is in the top margin of a
\* page 1000 high only, 700 in the bottom margin of a page 800 high only
MarginHeights == {800, 1000} \X {130, 700}

\* the ways to cut n lines into three pages
Cuts(n) == {c \in (0..n) \X (0..n) : c[1] <= c[2]}

\* the raw lines of the documents with headings, all in the body of the page
OutlinePool ==
    { Raw(T_ANNUAL_REPORT, 2396, 0, 400),
      Raw(T_OVERVIEW, 2400, 0, 400),
      Raw(T_Overview, 1400, 0, 400),
      Raw(T_Data_Pipeline, 1400, 0, 400),
      Raw(T_plain_text, 1204, 0, 400),
      Raw(T_plain_text, 1400, 20, 400) }

\* a document of three pages holding the lines of raws, page 1 up to index i
\* and page 2 up to index j; page 1 starts with a line of body text when
\* body holds
OutlineDoc(raws, i, j, body) ==
    [status |-> "ok",
     pages  |-> << [height |-> 800,
                    lines  |-> (IF body THEN <<Raw(T_plain_text, 1200, 0, 300)>> ELSE <<>>)
                               \o SubSeq(raws, 1, i)],
                   [height |-> 800, lines |-> SubSeq(raws, i + 1, j)],
                   [height |-> 800, lines |-> SubSeq(raws, j + 1, Len(raws))] >>]

\* one size-24 line "Annual Report" and four size-12 lines on a single page
AnnualReportPages ==
    << [height |-> 800,
        lines  |-> << Raw(T_Annual_Report, 2400, 0, 200),
                      Raw(T_plain_text, 1200, 0, 300),
                      Raw(T_plain_text, 1200, 0, 400),
                      Raw(T_plain_text, 1200, 0, 500),
                      Raw(T_plain_text, 1200, 0, 600) >>] >>

\* a title line of two spans, a table-of-contents line, a line without spans
\* and a line of blank spans
MixedPages ==
    << [height |-> 800,
        lines  |-> << [spans |-> << [text |-> T_sp_ANNUAL, size |-> 2396, flags |-> 0],
                                    [text |-> T_blank, size |-> 1200, flags |-> 0],
                                    [text |-> T_REPORT_sp, size |-> 1200, flags |-> 16] >>,
                       y1 |-> 200],
                      Raw(T_dot_leader, 1400, 16, 300),
                      [spans |-> <<>>, y1 |-> 350],
                      Raw(T_blank, 1400, 16, 400),
                      Raw(T_plain_text, 1200, 0, 500) >>],
       [height |-> 800,
        lines  |-> << Raw(T_ANNUAL_REPORT, 1400, 0, 400) >>] >>

\* pages whose lines are all dropped by the extraction
EmptiedPages ==
    << [height |-> 800,
        lines  |-> << Raw(T_dot_leader, 1400, 16, 300),
                      [spans |-> <<>>, y1 |-> 350],
                      Raw(T_blank, 1400, 16, 400) >>] >>

ScenarioDocs ==
    {[status |-> st, pages |-> pages] :
        st \in {"ok", "missing", "corrupt"},
        pages \in {<<>>, AnnualReportPages, MixedPages, EmptiedPages}}

\* the cleaned lines handed to extract_title
TitlePool ==
    { [text |-> T_Annual, size |-> 240, flags |-> 0],
      [text |-> T_Report_2024, size |-> 240, flags |-> 0],
      [text |-> Capitals(80), size |-> 240, flags |-> 0],
      [text |-> T_plain_text, size |-> 120, flags |-> 0] }

\* n body lines on page 1
Padding(n) ==
    [i \in 1..n |-> [text |-> T_plain_text, size |-> 120, flags |-> 0, page |-> 1]]

\* the lines of ls, on page 1 up to index i, on page 2 up to index j and on
\* page 3 after it
Paged(ls, i, j) ==
    [k \in 1..Len(ls) |->
        [text |-> ls[k].text, size |-> ls[k].size, flags |-> ls[k].flags,
         page |-> IF k <= i THEN 1 ELSE IF k <= j THEN 2 ELSE 3]]

\* the lines and heading sizes handed to classify_heading_level
ClassifyTexts ==
    { T_Data_Pipeline, T_1_Intro, T_1_2_3_Deep, T_1_2_3_4_Deeper, T_3_Scope,
      T_42, T_Overview, T_v5_notes, T_I_Intro }

ClassifySizes == {120, 140, 180, 240}

ClassifyLines ==
    {[text |-> t, size |-> z, flags |-> 0, page |-> 1] :
        t \in ClassifyTexts, z \in ClassifySizes}

HeadingSizeLists == {sorted_reverse(S) : S \in SUBSET ClassifySizes}

\* the lines handed to is_likely_heading
HeadingTexts ==
    { T_1_Text, T_1_1_Text, T_1_1_1_Text, T_Chapter_1, T_Section_A,
      T_Chapter_1_Intro, T_Section_A_Scope, T_I_Intro, T_42, T_ab, T_abc,
      T_Data_Pipeline, T_1_Intro, T_3_Scope, T_v5_notes, T_plain_text,
      T_ANNUAL_REPORT, T_Annual_Report, T_Annual, T_Overview, T_OVERVIEW,
      T_Table_of_Contents, T_Confidential, T_dot_leader, T_Report_2024,
      Capitals(2), Capitals(3), Capitals(200), Capitals(201),
      T_1_1_Text \o Capitals(192), T_1_1_Text \o Capitals(193) }

HeadingLines ==
    {[text |-> t, size |-> 140, flags |-> f, page |-> 1] :
        t \in HeadingTexts, f \in {0, 4, 16, 20}}

NoLine == [text |-> <<>>, size |-> 0, flags |-> 0, page |-> 0]

NoPdf == [status |-> "missing", pages |-> <<>>]

NoResult == [raised |-> FALSE, title |-> <<>>, outline |-> <<>>]

----------------------------------------------------------------------------
(* The calls.                                                              *)

\* what every call starts from
Start(f, doc, lines, l, sizes) ==
    /\ fn = f
    /\ pc = "call"
    /\ pdf = doc
    /\ text_lines = lines
    /\ line = l
    /\ heading_sizes = sizes
    /\ common_texts = {}
    /\ body_size = DefaultBodySize
    /\ ret = NoResult

\* extract_outline on a document with a text in its margins
InitMarginDoc ==
    \E n \in 1..MaxPages :
        \E S \in SUBSET (1..n), p2 \in 0..n, c \in MarginHeights, y2 \in {130, 700},
           body \in BOOLEAN :
            \/ Start("extract_outline",
                     MarginDoc(n, c[1], T_Confidential, c[2], S, p2, y2, body),
                     <<>>, NoLine, <<>>)
            \/ Start("extract_outline", MarginDoc(n, c[1], T_abc, c[2], 1..n, 0, 0, body),
                     <<>>, NoLine, <<>>)

\* extract_outline on a document with headings
InitOutlineDoc ==
    \E raws \in SeqsUpTo(OutlinePool, MaxLines) :
        \E c \in Cuts(Len(raws)), body \in BOOLEAN :
            Start("extract_outline", OutlineDoc(raws, c[1], c[2], body), <<>>, NoLine, <<>>)

\* extract_outline on the scenario documents
InitScenarioDoc ==
    \E doc \in ScenarioDocs : Start("extract_outline", doc, <<>>, NoLine, <<>>)

\* extract_title on a cleaned line sequence
InitTitle ==
    \E ls \in SeqsUpTo(TitlePool, MaxTitleLines) :
        \E n \in {0, 29, 30}, c \in Cuts(Len(ls)) :
            Start("extract_title", NoPdf, Padding(n) \o Paged(ls, c[1], c[2]), NoLine, <<>>)

\* classify_heading_level on a line and a list of heading sizes
InitClassify ==
    \E l \in ClassifyLines, sizes \in HeadingSizeLists :
        Start("classify_heading_level", NoPdf, <<>>, l, sizes)

\* is_likely_heading on a line
InitHeading ==
    \E l \in HeadingLines : Start("is_likely_heading", NoPdf, <<>>, l, <<>>)

Init ==
    \/ InitMarginDoc
    \/ InitOutlineDoc
    \/ InitScenarioDoc
    \/ InitTitle
    \/ InitClassify
    \/ InitHeading

\* extract_outline(pdf_path)
ExtractOutline ==
    /\ fn = "extract_outline"
    /\ pc = "call"
    /\ LET r == extract_text_lines(pdf)
       IN  /\ text_lines' = r.lines
           /\ common_texts' = r.headers_and_footers
           /\ IF r.raised
              THEN /\ ret' = [NoResult EXCEPT !.raised = TRUE]
                   /\ UNCHANGED <<body_size, heading_sizes>>
              ELSE IF r.lines = <<>>
              THEN /\ ret' = ErrorResult
                   /\ UNCHANGED <<body_size, heading_sizes>>
              ELSE LET f == font_styles(r.lines)
                   IN  /\ ret' = outline_of(r.lines)
                       /\ body_size' = f.body_size
                       /\ heading_sizes' = f.heading_sizes
    /\ pc' = "return"
    /\ UNCHANGED <<fn, pdf, line>>

\* extract_title(text_lines)
ExtractTitle ==
    /\ fn = "extract_title"
    /\ pc = "call"
    /\ ret' = [NoResult EXCEPT !.title = extract_title(text_lines)]
    /\ pc' = "return"
    /\ UNCHANGED <<fn, pdf, text_lines, line, heading_sizes, common_texts, body_size>>

\* classify_heading_level(line, heading_sizes)
ClassifyHeadingLevel ==
    /\ fn = "classify_heading_level"
    /\ pc = "call"
    /\ ret' = classify_heading_level(line, heading_sizes)
    /\ pc' = "return"
    /\ UNCHANGED <<fn, pdf, text_lines, line, heading_sizes, common_texts, body_size>>

\* is_likely_heading(line)
IsLikelyHeading ==
    /\ fn = "is_likely_heading"
    /\ pc = "call"
    /\ ret' = is_likely_heading(line)
    /\ pc' = "return"
    /\ UNCHANGED <<fn, pdf, text_lines, line, heading_sizes, common_texts, body_size>>

Next ==
    \/ ExtractOutline
    \/ ExtractTitle
    \/ ClassifyHeadingLevel
    \/ IsLikelyHeading

Spec == Init /\ [][Next]_vars

----------------------------------------------------------------------------
(* Properties.                                                             *)

Returned(f) == pc = "return" /\ fn = f

\* extract_outline returned an outline for a cleaned line sequence that is not empty
Outlined == Returned("extract_outline") /\ text_lines # <<>>

Levels == {"H1", "H2", "H3"}

\* the index of the line an outline entry was emitted from: the first line
\* with the entry's text and page that is larger than body text and passes
\* the heading test
SourceLine(e) ==
    Min({k \in 1..Len(text_lines) :
            /\ text_lines[k].text = e.text
            /\ text_lines[k].page = e.page
            /\ text_lines[k].size > body_size
            /\ is_likely_heading(text_lines[k])})

\* C1: extract_outline never raises; when extract_text_lines yields no line
\* (file missing, open failure, zero pages, every line filtered out) it
\* returns the fixed error result; otherwise the title is a string and every
\* outline entry has a level among H1, H2, H3.
C1_ErrorResult ==
    Returned("extract_outline") =>
        /\ ~ret.raised
        /\ (pdf.status # "ok" \/ pdf.pages = <<>>) => text_lines = <<>>
        /\ text_lines = <<>> =>
              /\ ret.title = <<"E", "r", "r", "o", "r", ":", " ", "C", "o", "u", "l", "d", " ", "N", "o", "t", " ", "P", "r", "o", "c", "e", "s", "s", " ", "D", "o", "c", "u", "m", "e", "n", "t">>
              /\ ret.outline = <<>>
        /\ text_lines # <<>> =>
              /\ \A i \in 1..Len(ret.title) : ret.title[i] \in STRING
              /\ \A i \in 1..Len(ret.outline) : ret.outline[i].level \in Levels

\* C1 witness: the document cannot be opened and the error result comes back
C1_Witness ==
    /\ Returned("extract_outline")
    /\ pdf.status = "corrupt"
    /\ pdf.pages # <<>>
    /\ ret.title = ErrorTitle

\* C2: the outline is non-decreasing in page, and entries of one page are in
\* the order in which their lines come in the cleaned line sequence.
C2_PageOrder ==
    Outlined =>
        \A i, j \in 1..Len(ret.outline) :
            i < j =>
                /\ ret.outline[i].page <= ret.outline[j].page
                /\ ret.outline[i].page = ret.outline[j].page =>
                      SourceLine(ret.outline[i]) < SourceLine(ret.outline[j])

\* C2 witness: two entries of one page followed by an entry of a later page
C2_Witness ==
    /\ Outlined
    /\ Len(ret.outline) >= 3
    /\ ret.outline[1].page = ret.outline[2].page
    /\ ret.outline[2].page < ret.outline[3].page

\* line k is larger than body text and passes the heading test
Candidate(k) ==
    text_lines[k].size > body_size /\ is_likely_heading(text_lines[k])

\* line k is skipped as the title: its trimmed text is the trimmed title and
\* its page is 1 or 2
TitleSkipped(k) ==
    strip(text_lines[k].text) = strip(ret.title) /\ text_lines[k].page <= 2

\* the outline has an entry for the text of line k on the page of line k
HasEntry(k) ==
    \E i \in 1..Len(ret.outline) :
        /\ lower(ret.outline[i].text) = lower(text_lines[k].text)
        /\ ret.outline[i].page = text_lines[k].page

\* no two outline entries share the key (lowercased text, page)
UniqueKeys ==
    \A i, j \in 1..Len(ret.outline) :
        i # j => \/ lower(ret.outline[i].text) # lower(ret.outline[j].text)
                 \/ ret.outline[i].page # ret.outline[j].page

\* lines a and b carry the same heading text on two different pages
SameHeadingTwoPages(a, b) ==
    /\ text_lines[a].text = text_lines[b].text
    /\ text_lines[a].page # text_lines[b].page
    /\ Candidate(a)
    /\ Candidate(b)

\* C3 as stated: no two outline entries share (lowercased text, page), and a
\* heading text that is a candidate above body size on two different pages
\* has an outline entry on each of the two pages.
C3_AsStated ==
    Outlined =>
        /\ UniqueKeys
        /\ \A a, b \in 1..Len(text_lines) :
              SameHeadingTwoPages(a, b) => HasEntry(a) /\ HasEntry(b)

\* C3 amended: no two outline entries share (lowercased text, page), and a
\* heading text that is a candidate above body size on two different pages
\* has an outline entry on each of the two pages on which it is not skipped
\* as the title.
C3_Dedup ==
    Outlined =>
        /\ UniqueKeys
        /\ \A a, b \in 1..Len(text_lines) :
              SameHeadingTwoPages(a, b) =>
                  /\ TitleSkipped(a) \/ HasEntry(a)
                  /\ TitleSkipped(b) \/ HasEntry(b)
        /\ \A k \in 1..Len(text_lines) :
              Candidate(k) /\ ~TitleSkipped(k) =>
                  Cardinality({i \in 1..Len(ret.outline) :
                      /\ lower(ret.outline[i].text) = lower(text_lines[k].text)
                      /\ ret.outline[i].page = text_lines[k].page}) = 1

\* C3 witness: one heading text twice on one page and once on another page,
\* with one outline entry on each of the two pages
C3_Witness ==
    /\ Outlined
    /\ \E a, b, c \in 1..Len(text_lines) :
          /\ a < b
          /\ text_lines[a].text = text_lines[b].text
          /\ text_lines[a].page = text_lines[b].page
          /\ Candidate(a) /\ Candidate(b)
          /\ SameHeadingTwoPages(a, c)
          /\ HasEntry(a) /\ HasEntry(c)
    /\ Len(ret.outline) = 2

\* the sizes of the cleaned lines
Sizes == {text_lines[k].size : k \in 1..Len(text_lines)}

\* how many cleaned lines have the size
Frequency(size) == Cardinality({k \in 1..Len(text_lines) : text_lines[k].size = size})

\* the sizes no other size is more frequent than
MostFrequent == {s \in Sizes : \A t \in Sizes : Frequency(s) >= Frequency(t)}

\* C4: the body size is a most frequent size, or the smallest size when the
\* most frequent size left no larger size; every outline entry comes from a
\* line strictly larger than the body size; lines of one single size give an
\* empty outline.
C4_AboveBody ==
    Outlined =>
        /\ \/ body_size \in MostFrequent
           \/ /\ body_size = Min(Sizes)
              /\ Max(Sizes) \in MostFrequent
              /\ Cardinality(Sizes) > 1
        /\ \A i \in 1..Len(ret.outline) :
              \E k \in 1..Len(text_lines) :
                  /\ text_lines[k].text = ret.outline[i].text
                  /\ text_lines[k].page = ret.outline[i].page
                  /\ text_lines[k].size > body_size
        /\ Cardinality(Sizes) = 1 => ret.outline = <<>>

\* C4 witness: a heading text in body size is left out while the same text in
\* a larger size is in the outline
C4_Witness ==
    /\ Outlined
    /\ ret.outline # <<>>
    /\ \E k \in 1..Len(text_lines) :
          /\ text_lines[k].size = body_size
          /\ is_likely_heading(text_lines[k])
          /\ ~TitleSkipped(k)
          /\ ~HasEntry(k)

\* the text is digits separated by single dots, starting and ending in a digit
Dotted(t) ==
    /\ t # <<>>
    /\ \A i \in 1..Len(t) : t[i] \in Digit \cup {"."}
    /\ t[1] \in Digit
    /\ t[Len(t)] \in Digit
    /\ \A i \in 1..(Len(t) - 1) : ~(t[i] = "." /\ t[i + 1] = ".")

\* the lengths of the dotted numeric prefixes of the text
DottedPrefixes(t) == {n \in 1..Len(t) : Dotted(SubSeq(t, 1, n))}

\* the number of numeric segments of the longest dotted numeric prefix
Segments(t) ==
    LET n == Max(DottedPrefixes(t))
    IN  Cardinality({i \in 1..n : t[i] = "."}) + 1

\* the rank of a size in a descending list of distinct sizes that holds it
Rank(size, sizes) == Cardinality({i \in 1..Len(sizes) : sizes[i] > size})

\* C5: a text that begins with a dotted numeric prefix gets its level from
\* the number of numeric segments alone (1 -> H1, 2 -> H2, 3 or more -> H3),
\* "3.2 Data Pipeline" being H2 at any size; any other text gets H1 for rank
\* 0, H2 for rank 1, H3 for a lower rank or a size absent from heading_sizes.
C5_Level ==
    Returned("classify_heading_level") =>
        /\ line.text = T_Data_Pipeline => ret = "H2"
        /\ IF DottedPrefixes(line.text) # {}
           THEN ret = CASE Segments(line.text) = 1 -> "H1"
                        [] Segments(line.text) = 2 -> "H2"
                        [] OTHER -> "H3"
           ELSE IF \E i \in 1..Len(heading_sizes) : heading_sizes[i] = line.size
           THEN ret = CASE Rank(line.size, heading_sizes) = 0 -> "H1"
                        [] Rank(line.size, heading_sizes) = 1 -> "H2"
                        [] OTHER -> "H3"
           ELSE ret = "H3"

\* C5 witness: "3.2 Data Pipeline" in the largest heading size is H2
C5_Witness ==
    /\ Returned("classify_heading_level")
    /\ line.text = T_Data_Pipeline
    /\ heading_sizes # <<>>
    /\ line.size = heading_sizes[1]
    /\ ret = "H2"

\* the document was opened and has pages
Scanned == Returned("extract_outline") /\ pdf.status = "ok" /\ pdf.pages # <<>>

\* the texts of the raw lines of the document
RawTexts ==
    UNION {{line_text(pdf.pages[p].lines[k]) : k \in 1..Len(pdf.pages[p].lines)} :
           p \in 1..Len(pdf.pages)}

\* the line tops on page p at which the text occurs
TopsOn(p, text) ==
    {k \in 1..Len(pdf.pages[p].lines) : line_text(pdf.pages[p].lines[k]) = text}

\* the line is in the header zone: its top is above 15% of the first page's height
HeaderZone(raw) == raw.y1 * 100 < 15 * pdf.pages[1].height

\* the line is in the footer zone: its top is below 85% of the first page's height
FooterZone(raw) == raw.y1 * 100 > 85 * pdf.pages[1].height

RECURSIVE HeaderCount(_, _)
\* the occurrences of the text in the header zone on pages 1..p
HeaderCount(p, text) ==
    IF p = 0 THEN 0
    ELSE HeaderCount(p - 1, text)
         + Cardinality({k \in TopsOn(p, text) : HeaderZone(pdf.pages[p].lines[k])})

RECURSIVE FooterCount(_, _)
\* the occurrences of the text in the footer zone on pages 1..p
FooterCount(p, text) ==
    IF p = 0 THEN 0
    ELSE FooterCount(p - 1, text)
         + Cardinality({k \in TopsOn(p, text) : FooterZone(pdf.pages[p].lines[k])})

\* max(pageCount // 2, 2) if pageCount > 2 else 1
Threshold ==
    LET n == Len(pdf.pages)
    IN  IF n > 2 THEN (IF n \div 2 > 2 THEN n \div 2 ELSE 2) ELSE 1

\* C6: a text of 4 characters or more that occurs in the header zone, or in
\* the footer zone, at least threshold times is in the suppression set, and
\* no extracted line has the text of a member of the suppression set.
C6_Suppression ==
    Scanned =>
        /\ \A t \in RawTexts :
              /\ Len(t) >= 4
              /\ \/ HeaderCount(Len(pdf.pages), t) >= Threshold
                 \/ FooterCount(Len(pdf.pages), t) >= Threshold
              => t \in common_texts
        /\ \A k \in 1..Len(text_lines) : text_lines[k].text \notin common_texts

\* C6 witness: "Confidential" in the footer of 5 of 6 pages and once in the
\* body of a page is suppressed, and another line is extracted
C6_Witness ==
    /\ Scanned
    /\ Len(pdf.pages) = 6
    /\ FooterCount(6, T_Confidential) = 5
    /\ \E p \in 1..6 : \E k \in TopsOn(p, T_Confidential) :
          /\ ~FooterZone(pdf.pages[p].lines[k])
          /\ ~HeaderZone(pdf.pages[p].lines[k])
    /\ T_Confidential \in common_texts
    /\ text_lines # <<>>

\* the indices of the first 30 lines of page p
FirstLinesOf(p) ==
    LET on == {k \in 1..Len(text_lines) : text_lines[k].page = p}
    IN  {k \in on : Cardinality({j \in on : j <= k}) <= 30}

\* the indices of the lines the title is looked for in: the first 30 lines of
\* page 1, or of page 2 when page 1 has no line
TitleArea == IF FirstLinesOf(1) # {} THEN FirstLinesOf(1) ELSE FirstLinesOf(2)

\* the indices of the lines the title is built from: those of the largest
\* size in the title area
TitleLines ==
    {k \in TitleArea : \A j \in TitleArea : text_lines[k].size >= text_lines[j].size}

\* C7 as stated: no line the title was built from is emitted as an outline
\* entry.
C7_TitleNotInOutline ==
    Outlined =>
        \A i \in 1..Len(ret.outline) : SourceLine(ret.outline[i]) \notin TitleLines

\* the texts of the lines of K, in line order
TextsOf(K) ==
    LET picked == SelectSeq([k \in 1..Len(text_lines) |-> k], LAMBDA k : k \in K)
    IN  [n \in 1..Len(picked) |-> text_lines[picked[n]].text]

RECURSIVE Spaced(_)
\* the texts, each followed by a space
Spaced(texts) ==
    IF texts = <<>> THEN <<>>
    ELSE Spaced(SubSeq(texts, 1, Len(texts) - 1)) \o texts[Len(texts)] \o <<" ">>

\* the texts joined by single spaces
SpaceJoined(texts) ==
    IF texts = <<>> THEN <<>> ELSE SubSeq(Spaced(texts), 1, Len(Spaced(texts)) - 1)

RECURSIVE WordsFrom(_, _)
\* the words of a text from index i on: its longest runs without whitespace
WordsFrom(t, i) ==
    IF i > Len(t) THEN <<>>
    ELSE IF t[i] \in Space THEN WordsFrom(t, i + 1)
    ELSE LET e == RunEnd(t, i, {t[j] : j \in 1..Len(t)} \ Space)
         IN  <<SubSeq(t, i, e - 1)>> \o WordsFrom(t, e)

RECURSIVE WordsOf(_)
\* the words of a sequence of texts
WordsOf(texts) ==
    IF texts = <<>> THEN <<>>
    ELSE WordsFrom(texts[1], 1) \o WordsOf(Tail(texts))

\* the first 147 characters and "..." for a text longer than 150 characters
Shortened(t) ==
    IF Len(t) > 150 THEN SubSeq(t, 1, 147) \o <<".", ".", ".">> ELSE t

\* extract_title ran on the cleaned lines: on its own, or inside extract_outline
Titled == Returned("extract_title") \/ Outlined

\* what C8 says besides the join: the title is never empty nor longer than
\* 150 characters, it is "Untitled Document" when pages 1 and 2 have no
\* line, and the Annual Report document gives "Annual Report" and no outline
TitleBounds ==
    /\ ret.title # <<>>
    /\ Len(ret.title) <= 150
    /\ TitleArea = {} =>
          ret.title = <<"U", "n", "t", "i", "t", "l", "e", "d", " ", "D", "o", "c", "u", "m", "e", "n", "t">>
    /\ fn = "extract_outline" /\ pdf.status = "ok" /\ pdf.pages = AnnualReportPages =>
          ret.title = T_Annual_Report /\ ret.outline = <<>>

\* C8 as stated: the title is the single-space join of the texts of the lines
\* of the largest size in the title area, shortened when longer than 150.
C8_AsStated ==
    Titled =>
        /\ TitleBounds
        /\ TitleArea # {} => ret.title = Shortened(SpaceJoined(TextsOf(TitleLines)))

\* C8 amended: the title is the single-space join of the texts of the lines
\* of the largest size in the title area with every run of whitespace
\* inside them collapsed to one space (the words of the texts joined by
\* single spaces), shortened when longer than 150.
C8_Title ==
    Titled =>
        /\ TitleBounds
        /\ TitleArea # {} => ret.title = Shortened(SpaceJoined(WordsOf(TextsOf(TitleLines))))

\* C8 witness: two lines of the largest size, one with a run of whitespace
\* in it, give a title shorter than their plain join
C8_Witness ==
    /\ Returned("extract_title")
    /\ Cardinality(TitleLines) = 2
    /\ Len(ret.title) < Len(SpaceJoined(TextsOf(TitleLines)))
    /\ Len(ret.title) <= 147

\* the pages on which the text occurs in the header zone
HeaderPages(text) ==
    {p \in 1..Len(pdf.pages) :
        \E k \in TopsOn(p, text) : HeaderZone(pdf.pages[p].lines[k])}

\* the pages on which the text occurs in the footer zone
FooterPages(text) ==
    {p \in 1..Len(pdf.pages) :
        \E k \in TopsOn(p, text) : FooterZone(pdf.pages[p].lines[k])}

\* C9 as stated: in a document of more than 2 pages a text is in the
\* suppression set only if it is in the top margin, or in the bottom margin,
\* of at least max(pageCount // 2, 2) distinct pages.
C9_DistinctPages ==
    Scanned /\ Len(pdf.pages) > 2 =>
        \A t \in common_texts :
            \/ Cardinality(HeaderPages(t)) >= Threshold
            \/ Cardinality(FooterPages(t)) >= Threshold

\* C10 as stated: the documented numbered and Chapter/Section shapes are
\* headings whether bold or not.
C10_DocumentedShapes ==
    /\ Returned("is_likely_heading")
    /\ line.text \in {T_1_Text, T_1_1_Text, T_1_1_1_Text, T_Chapter_1, T_Section_A}
    => ret = TRUE

====
